---- MODULE Spec2Model ----
(***************************************************************************)
(* Model of the Bundlr upload handler of sugar (src/src/upload/bundlr.rs): *)
(*   - BundlrHandler::upload_data, the bounded-parallelism upload loop     *)
(*     (specification Spec; SpecLive and SpecStuck add fairness);          *)
(*   - BundlrHandler::prepare: the size estimate (specification            *)
(*     SpecEstimate), then the fee and the funding gate (specification     *)
(*     SpecPrepare).                                                       *)
(***************************************************************************)
EXTENDS Integers, Sequences, FiniteSets, TLC

\* ------------------------------------------------------------------ bounds

\* Longest index list passed to upload_data.
MaxLen == 3

\* Largest value of constants::PARALLEL_LIMIT explored (1..MaxLimit).
MaxLimit == 2

\* ------------------------------------------------------------ small helpers

Min(a, b) == IF a < b THEN a ELSE b

Range(s) == {s[i] : i \in 1..Len(s)}

SeqsUpTo(S, n) == UNION {[1..k -> S] : k \in 0..n}

\* usize arithmetic: a subtraction below zero wraps to a huge value (release
\* build); 2^31 - 1 stands for it, above every count of the model.
UsizeSub(a, b) == IF a >= b THEN a - b ELSE 2147483647

\* ------------------------------------------------------------------- inputs

DataTypes == {"Image", "Metadata", "Animation"}

NoPath == [dir |-> "", stem |-> "", ext |-> ""]

MkPath(d, s, e) == [dir |-> d, stem |-> s, ext |-> e]

\* Path::extension and Path::file_stem of "dir/stem.ext".
extension(path) == path.ext

file_stem(path) == path.stem

\* The caller's assets: HashMap<usize, AssetPair>.  Asset 1 has no animation;
\* the image of asset 2 lives in another directory and shares its base name
\* with the image of asset 0; asset 3 has another image extension and no cache
\* item.  Index 4 has no asset.
Assets ==
  [i \in 0..3 |->
     CASE i = 0 -> [image |-> MkPath("assets", "0", "png"),
                    metadata |-> MkPath("assets", "0", "json"),
                    animation |-> MkPath("assets", "0", "mp4")]
       [] i = 1 -> [image |-> MkPath("assets", "1", "png"),
                    metadata |-> MkPath("assets", "1", "json"),
                    animation |-> NoPath]
       [] i = 2 -> [image |-> MkPath("extra", "0", "png"),
                    metadata |-> MkPath("assets", "2", "json"),
                    animation |-> MkPath("assets", "2", "mp4")]
       [] i = 3 -> [image |-> MkPath("assets", "3", "jpg"),
                    metadata |-> MkPath("assets", "3", "json"),
                    animation |-> MkPath("assets", "3", "mov")]]

Indices == 0..4

\* Links are strings; the empty string is <<>>, an Option is None or Some(l).
EmptyLink == <<>>

Link(id) == <<"https://arweave.net/", id>>

None == <<"None">>

Some(l) == <<"Some", l>>

\* The cache as loaded before the run: items "0", "1" and "2", some links
\* already populated by an earlier run (id 0).
InitialCache ==
  [s \in {"0", "1", "2"} |->
     CASE s = "0" -> [image_link |-> Link(0), metadata_link |-> EmptyLink,
                      animation_link |-> None]
       [] s = "1" -> [image_link |-> EmptyLink, metadata_link |-> Link(0),
                      animation_link |-> None]
       [] s = "2" -> [image_link |-> EmptyLink, metadata_link |-> EmptyLink,
                      animation_link |-> Some(Link(0))]]

\* -------------------------------------------------------------------- state

VARIABLES
  pc,              \* position of upload_data: start, loop, select, refill, spawn, finish, done
  indices,         \* argument: the selected asset indices
  data_type,       \* argument: the data kind
  parallel_limit,  \* constants::PARALLEL_LIMIT
  interrupted,     \* the shared AtomicBool
  transactions,    \* Vec<TxInfo> not yet dispatched (pending)
  handles,         \* the JoinHandles in flight, each owning its TxInfo
  task,            \* per spawned or pending task: pending, running, ok, err, panic
  cache,           \* cache.items, in memory
  disk,            \* the cache file as last written by sync_file
  errors,          \* Vec<UploadError>
  result,          \* what upload_data returned
  message,         \* the progress bar's final message
  dispatched,      \* history: task numbers in the order they were spawned
  harvested,       \* history: task numbers select_all has returned
  progress,        \* pb: the progress bar's position (line 460)
  sync_calls,      \* history: number of cache.sync_file invocations
  synced,          \* history: sync_file was invoked since the last harvest
  cancel_seen,     \* history: the loop head read interrupted = true
  flag_at_call,    \* history: interrupted was set when upload_data was called
  p_pc,            \* position of prepare: fee, balance, gate, poll, verify, done
  price,           \* history: the price get_bundlr_fee answered
  lamports_fee,    \* prepare: the required amount
  balance,         \* prepare: the observed balance
  first_balance,   \* history: the balance queried before the gate
  retry,           \* prepare: _i of the polling loop
  transfers,       \* history: the amounts passed to fund_bundlr_address
  polls,           \* history: number of balance queries of the polling loop
  last_query,      \* history: outcome of the latest polling query
  p_result,        \* what prepare returned
  image_indices,   \* prepare's argument: indices whose image is uploaded
  metadata_indices,  \* prepare's argument: indices whose metadata is uploaded
  animation_indices, \* prepare's argument: indices whose animation is uploaded
  file_len,        \* the file system: length in bytes of each asset file
  total_size       \* prepare: the estimated upload size

uvars == <<pc, indices, data_type, parallel_limit, interrupted, transactions,
           handles, task, cache, disk, errors, result, message, dispatched,
           harvested, progress, sync_calls, synced, cancel_seen, flag_at_call>>

evars == <<image_indices, metadata_indices, animation_indices, file_len,
           total_size>>

pvars == <<p_pc, price, lamports_fee, balance, first_balance, retry, transfers, polls,
           last_query, p_result, evars>>

vars == <<uvars, pvars>>

\* ------------------------------------------------- upload_data: pre-flight

\* bundlr.rs 364-368: the file chosen by the data kind.
FilePath(item, dt) ==
  CASE dt = "Image" -> item.image
    [] dt = "Metadata" -> item.metadata
    [] dt = "Animation" -> item.animation

\* bundlr.rs 358-378: walks the indices in order; stops at the first index
\* without an asset (Err) or, for animations, without an animation (unwrap).
RECURSIVE CollectPaths(_, _, _)
CollectPaths(idx, dt, acc) ==
  IF idx = <<>> THEN acc
  ELSE LET index == Head(idx) IN
       IF index \notin DOMAIN Assets THEN [acc EXCEPT !.err = "ErrNoAsset"]
       ELSE LET item == Assets[index] IN
            IF dt = "Animation" /\ item.animation = NoPath
            THEN [acc EXCEPT !.err = "Panic"]
            ELSE LET p == FilePath(item, dt) IN
                 CollectPaths(Tail(idx), dt,
                              [err |-> "none",
                               paths |-> Append(acc.paths, p),
                               extension |-> acc.extension \cup {extension(p)}])

\* Mutant of ValidExtension: an empty set of extensions passes too.
ValidExtension_AtMostOne(exts) == Cardinality(exts) <= 1

\* bundlr.rs 381: all selected files have the same extension.
ValidExtension(exts) == Cardinality(exts) = 1

\* bundlr.rs 389-393: the Content-Type tag.
ContentType(dt, ext) ==
  CASE dt = "Image" -> <<"image/", ext>>
    [] dt = "Metadata" -> <<"application/json">>
    [] dt = "Animation" -> <<"video/", ext>>

\* bundlr.rs 420-427: one TxInfo; seq is the task's position in the list.
TxInfo(n, asset_id, path, cache_item, dt, ext) ==
  [seq |-> n,
   asset_id |-> asset_id,
   file_path |-> path,
   image_link |-> cache_item.image_link,
   animation_link |-> cache_item.animation_link,
   data_type |-> dt,
   tag |-> ContentType(dt, ext)]

\* Mutant of BuildTransactions: a path whose asset id has no cache item is
\* skipped instead of failing the call.
RECURSIVE BuildTransactions_SkipMissing(_, _, _, _, _)
BuildTransactions_SkipMissing(paths, items, dt, ext, acc) ==
  IF paths = <<>> THEN acc
  ELSE LET path == Head(paths)
           asset_id == file_stem(path) IN
       IF asset_id \notin DOMAIN items
       THEN BuildTransactions_SkipMissing(Tail(paths), items, dt, ext, acc)
       ELSE BuildTransactions_SkipMissing(Tail(paths), items, dt, ext,
              [err |-> "none",
               txs |-> Append(acc.txs,
                              TxInfo(Len(acc.txs) + 1, asset_id, path,
                                     items[asset_id], dt, ext))])

\* bundlr.rs 402-428: one transaction per path, in order; stops at the first
\* asset id without a cache item.
RECURSIVE BuildTransactions(_, _, _, _, _)
BuildTransactions(paths, items, dt, ext, acc) ==
  IF paths = <<>> THEN acc
  ELSE LET path == Head(paths)
           asset_id == file_stem(path) IN
       IF asset_id \notin DOMAIN items THEN [acc EXCEPT !.err = "ErrCacheItem"]
       ELSE BuildTransactions(Tail(paths), items, dt, ext,
              [err |-> "none",
               txs |-> Append(acc.txs,
                              TxInfo(Len(acc.txs) + 1, asset_id, path,
                                     items[asset_id], dt, ext))])

\* Mutant of Drain: the transactions are taken from the back of the list.
Drain_FromBack(txs, k) ==
  [taken |-> SubSeq(txs, Len(txs) - k + 1, Len(txs)),
   rest |-> SubSeq(txs, 1, Len(txs) - k)]

\* bundlr.rs 432 and 485-486: transactions.drain(0..k) yields the first k
\* transactions in order and leaves the others.
Drain(txs, k) ==
  [taken |-> SubSeq(txs, 1, k), rest |-> SubSeq(txs, k + 1, Len(txs))]

\* Mutant of InitialCount: nothing is spawned before the loop.
InitialCount_Zero(pending, limit) == 0

\* bundlr.rs 432: size of the initial dispatch.
InitialCount(pending, limit) == Min(pending, limit)

\* Mutant of RefillDue: the refill is due as soon as half of the limit is free.
RefillDue_AtHalf(limit, in_flight) == UsizeSub(limit, in_flight) >= limit \div 2

\* bundlr.rs 481: "if we are half way through".
RefillDue(limit, in_flight) == UsizeSub(limit, in_flight) > limit \div 2

\* Mutant of RefillCount: the refill drains the whole pending list.
RefillCount_All(pending, limit) == pending

\* bundlr.rs 486: size of one refill.
RefillCount(pending, limit) == Min(pending, limit \div 2)

\* Mutant of LoopContinues: the flag is not looked at.
LoopContinues_IgnoreFlag(flag, in_flight) == in_flight # {}

\* Mutant of LoopContinues: the loop also stops with one task in flight.
LoopContinues_Plural(flag, in_flight) == ~flag /\ Cardinality(in_flight) > 1

\* bundlr.rs 441: the loop condition.
LoopContinues(flag, in_flight) == ~flag /\ in_flight # {}

\* Mutant of WriteLink: the link always goes to image_link.
WriteLink_ImageOnly(items, asset_id, dt, id) ==
  [items EXCEPT ![asset_id] = [@ EXCEPT !.image_link = Link(id)]]

\* bundlr.rs 450-458: the link written into the field chosen by the data kind.
WriteLink(items, asset_id, dt, id) ==
  [items EXCEPT ![asset_id] =
     CASE dt = "Image" -> [@ EXCEPT !.image_link = Link(id)]
       [] dt = "Metadata" -> [@ EXCEPT !.metadata_link = Link(id)]
       [] dt = "Animation" -> [@ EXCEPT !.animation_link = Some(Link(id))]]

\* bundlr.rs 463-466 and 470-473: the error recorded for a failed task.
SendDataFailed(n, cause) == [error |-> "SendDataFailed", seq |-> n, cause |-> cause]

\* Mutant of RecordOutcome: a JoinError is ignored instead of recorded.
RecordOutcome_DropJoin(errs, n, outcome) ==
  IF outcome = "err" THEN Append(errs, SendDataFailed(n, "task")) ELSE errs

\* bundlr.rs 448-476: the error list after harvesting a task with `outcome`.
RecordOutcome(errs, n, outcome) ==
  CASE outcome = "ok" -> errs
    [] outcome = "err" -> Append(errs, SendDataFailed(n, "task"))
    [] outcome = "panic" -> Append(errs, SendDataFailed(n, "join"))

\* The ways a spawned send_bundlr_tx ends (bundlr.rs 198-226, 443, 469).
Completed == {"ok", "err", "panic"}

\* Mutant of Ready: only the handle spawned first can be returned, as if the
\* loop awaited the handles in submission order.
Ready_InOrder(hs, t) ==
  {h \in hs : t[h.seq] \in Completed /\ \A g \in hs : h.seq <= g.seq}

\* bundlr.rs 442: the handles select_all can return, those whose task has
\* completed, wherever they stand in the handle list.
Ready(hs, t) == {h \in hs : t[h.seq] \in Completed}

\* The values of constants::PARALLEL_LIMIT explored.
ParallelLimits == 1..MaxLimit

\* cache.sync_file: commits the in-memory map to the cache file atomically,
\* or fails and leaves the file as it was.
SyncFile(ok, items, file) == IF ok THEN items ELSE file

\* ------------------------------------------------------------------ actions

\* File lengths tried for the files of asset 0: far below MINIMUM_SIZE, just
\* below it, and above it.
Sizes == {50, 9950, 10050}

\* The length of the files of every other asset.
DefaultLen == 9950

\* The file systems explored: a length for each asset file; for a metadata
\* file, the length of the document without its image and animation URIs.
FileLens ==
  {[k \in DataTypes |-> [i \in DOMAIN Assets |->
      IF i = 0 THEN v[k] ELSE DefaultLen]] : v \in [DataTypes -> Sizes]}

\* The size estimate of prepare is not running.
EstimateIdle ==
  /\ image_indices = <<>>
  /\ metadata_indices = <<>>
  /\ animation_indices = <<>>
  /\ file_len = [k \in DataTypes |-> [i \in DOMAIN Assets |-> DefaultLen]]
  /\ total_size = 0

\* prepare is not running.
PrepareIdle ==
  /\ p_pc = "idle"
  /\ price = 0
  /\ lamports_fee = 0
  /\ balance = 0
  /\ first_balance = 0
  /\ retry = 0
  /\ transfers = <<>>
  /\ polls = 0
  /\ last_query = "none"
  /\ p_result = "none"
  /\ EstimateIdle

Init ==
  /\ pc = "start"
  /\ indices \in SeqsUpTo(Indices, MaxLen)
  /\ data_type \in DataTypes
  /\ parallel_limit \in ParallelLimits
  /\ interrupted = FALSE
  /\ transactions = <<>>
  /\ handles = {}
  /\ task = <<>>
  /\ cache = InitialCache
  /\ disk = InitialCache
  /\ errors = <<>>
  /\ result = "none"
  /\ message = "none"
  /\ dispatched = <<>>
  /\ harvested = {}
  /\ progress = 0
  /\ sync_calls = 0
  /\ synced = FALSE
  /\ cancel_seen = FALSE
  /\ flag_at_call = FALSE
  /\ PrepareIdle

\* The user's Ctrl+C handler sets the flag, at any time.
Interrupt ==
  /\ pc # "done"
  /\ ~interrupted
  /\ interrupted' = TRUE
  /\ UNCHANGED <<pc, indices, data_type, parallel_limit, transactions, handles,
                 task, cache, disk, errors, result, message, dispatched,
                 harvested, progress, sync_calls, synced, cancel_seen, flag_at_call>>
  /\ UNCHANGED pvars

\* bundlr.rs 355-439: validation, the task list and the initial dispatch.
Start ==
  /\ pc = "start"
  /\ flag_at_call' = interrupted
  /\ LET pre == CollectPaths(indices, data_type,
                             [err |-> "none", paths |-> <<>>, extension |-> {}])
         ext == CHOOSE e \in pre.extension : TRUE
         built == BuildTransactions(pre.paths, cache, data_type, ext,
                                    [err |-> "none", txs |-> <<>>])
         k == InitialCount(Len(built.txs), parallel_limit)
         d == Drain(built.txs, k)
         failure == IF pre.err # "none" THEN pre.err
                    ELSE IF ~ValidExtension(pre.extension) THEN "ErrExtension"
                    ELSE built.err
     IN IF failure # "none"
        THEN /\ pc' = "done"
             /\ result' = failure
             /\ UNCHANGED <<transactions, handles, task, dispatched>>
        ELSE /\ pc' = "loop"
             /\ result' = result
             /\ handles' = Range(d.taken)
             /\ transactions' = d.rest
             /\ task' = [n \in 1..Len(built.txs) |->
                           IF \E i \in 1..k : d.taken[i].seq = n
                           THEN "running" ELSE "pending"]
             /\ dispatched' = [i \in 1..k |-> d.taken[i].seq]
  /\ UNCHANGED <<indices, data_type, parallel_limit, interrupted, cache, disk,
                 errors, message, harvested, progress, sync_calls, synced, cancel_seen>>
  /\ UNCHANGED pvars

\* A spawned send_bundlr_tx finishes: Ok((asset_id, id)), Err, or a panic.
TaskComplete ==
  /\ pc \notin {"start", "idle", "done"}
  /\ \E h \in handles, outcome \in Completed :
       /\ task[h.seq] = "running"
       /\ task' = [task EXCEPT ![h.seq] = outcome]
  /\ UNCHANGED <<pc, indices, data_type, parallel_limit, interrupted,
                 transactions, handles, cache, disk, errors, result, message,
                 dispatched, harvested, progress, sync_calls, synced, cancel_seen, flag_at_call>>
  /\ UNCHANGED pvars

\* The spawned send_bundlr_tx of task n finishes.
TaskCompleteOf(n) ==
  n \in DOMAIN task /\ TaskComplete /\ task'[n] # task[n]

\* bundlr.rs 441: the loop head reads the flag and the handle list.
LoopHead ==
  /\ pc = "loop"
  /\ pc' = IF LoopContinues(interrupted, handles) THEN "select" ELSE "finish"
  /\ cancel_seen' = interrupted
  /\ UNCHANGED <<indices, data_type, parallel_limit, interrupted, transactions,
                 handles, task, cache, disk, errors, result, message,
                 dispatched, harvested, progress, sync_calls, synced>>
  /\ UNCHANGED flag_at_call
  /\ UNCHANGED pvars

\* bundlr.rs 442-477: select_all returns whichever task has completed.
Harvest ==
  /\ pc = "select"
  /\ \E h \in Ready(handles, task) :
       /\ handles' = handles \ {h}
       /\ cache' = IF task[h.seq] = "ok"
                   THEN WriteLink(cache, h.asset_id, data_type, h.seq)
                   ELSE cache
       /\ errors' = RecordOutcome(errors, h.seq, task[h.seq])
       /\ harvested' = harvested \cup {h.seq}
       /\ progress' = IF task[h.seq] = "ok" THEN progress + 1 ELSE progress
  /\ synced' = FALSE
  /\ pc' = "refill"
  /\ UNCHANGED <<indices, data_type, parallel_limit, interrupted, transactions,
                 task, disk, result, message, dispatched, sync_calls,
                 cancel_seen, flag_at_call>>
  /\ UNCHANGED pvars

\* bundlr.rs 479-483: the refill test and, when it passes, the checkpoint;
\* a failing sync_file returns its error from upload_data.
Refill ==
  /\ pc = "refill"
  /\ IF transactions # <<>> /\ RefillDue(parallel_limit, Cardinality(handles))
     THEN \E ok \in BOOLEAN :
            /\ sync_calls' = sync_calls + 1
            /\ synced' = TRUE
            /\ disk' = SyncFile(ok, cache, disk)
            /\ pc' = IF ok THEN "spawn" ELSE "done"
            /\ result' = IF ok THEN result ELSE "ErrSync"
     ELSE /\ pc' = "loop"
          /\ UNCHANGED <<sync_calls, synced, disk, result>>
  /\ UNCHANGED <<indices, data_type, parallel_limit, interrupted, transactions,
                 handles, task, cache, errors, message, dispatched, harvested, progress,
                 cancel_seen, flag_at_call>>
  /\ UNCHANGED pvars

\* bundlr.rs 485-492: the refill drains the front of the pending list and
\* spawns one task per drained transaction.
Spawn ==
  /\ pc = "spawn"
  /\ LET k == RefillCount(Len(transactions), parallel_limit)
         d == Drain(transactions, k) IN
       /\ handles' = handles \cup Range(d.taken)
       /\ task' = [n \in DOMAIN task |->
                     IF \E i \in 1..k : d.taken[i].seq = n
                     THEN "running" ELSE task[n]]
       /\ dispatched' = dispatched \o [i \in 1..k |-> d.taken[i].seq]
       /\ transactions' = d.rest
  /\ pc' = "loop"
  /\ UNCHANGED <<indices, data_type, parallel_limit, interrupted, cache, disk,
                 errors, result, message, harvested, progress, sync_calls, synced,
                 cancel_seen, flag_at_call>>
  /\ UNCHANGED pvars

\* bundlr.rs 497-511: the final message, the last sync and the return.
Finish ==
  /\ pc = "finish"
  /\ pc' = "done"
  /\ IF errors = <<>> /\ transactions # <<>>
     THEN /\ message' = "Upload aborted"
          /\ result' = "ErrAborted"
          /\ UNCHANGED <<disk, sync_calls, synced>>
     ELSE /\ message' = IF errors # <<>> THEN "Upload failed"
                        ELSE "Upload successful"
          /\ sync_calls' = sync_calls + 1
          /\ synced' = TRUE
          /\ \E ok \in BOOLEAN :
               /\ disk' = SyncFile(ok, cache, disk)
               /\ result' = IF ok THEN "Ok" ELSE "ErrSync"
  /\ UNCHANGED <<indices, data_type, parallel_limit, interrupted, transactions,
                 handles, task, cache, errors, dispatched, harvested, progress,
                 cancel_seen, flag_at_call>>
  /\ UNCHANGED pvars

Next ==
  \/ Interrupt
  \/ Start
  \/ TaskComplete
  \/ LoopHead
  \/ Harvest
  \/ Refill
  \/ Spawn
  \/ Finish

Spec == Init /\ [][Next]_vars

\* ------------------------------------------------------------------ prepare

\* Largest price the price oracle answers.
MaxPrice == 3

\* Largest balance the balance oracle answers.
MaxBalance == 3

\* bundlr.rs 24: the number of retries to fetch the Bundlr balance.
MAX_RETRY == 120

\* Mutant of AsU64: the cast rounds up.
AsU64_RoundUp(tenths) == (tenths + 9) \div 10

\* `x as u64` of a float literal, given in tenths: truncation toward zero.
AsU64(tenths) == tenths \div 10

\* bundlr.rs 283: (1.1 as u64).
SafetyMultiplier == AsU64(11)

\* bundlr.rs 281-283: the required amount from the oracle's price.
RequiredAmount(quoted) == quoted * SafetyMultiplier

\* Mutant of NeedsFunding: funds also when the balance equals the requirement.
NeedsFunding_Inclusive(fee, bal) == fee >= bal

\* bundlr.rs 299: the funding gate's condition.
NeedsFunding(fee, bal) == fee > bal

\* bundlr.rs 306: the amount transferred.
TransferAmount(fee, bal) == fee - bal

\* Mutant of LoopRuns: an inclusive range, one round too many.
LoopRuns_Inclusive(i) == i <= MAX_RETRY

\* bundlr.rs 317: the polling loop runs for _i in 0..MAX_RETRY.
LoopRuns(i) == i < MAX_RETRY

\* Mutant of ObservedBalance: a failed query counts as a balance of zero.
ObservedBalance_OrZero(bal, res) == IF res.ok THEN res.value ELSE 0

\* bundlr.rs 321-323: only a successful query replaces the observed balance.
ObservedBalance(bal, res) == IF res.ok THEN res.value ELSE bal

\* bundlr.rs 325: the loop breaks once the balance suffices.
Sufficient(bal, fee) == bal >= fee

\* bundlr.rs 335: the final verdict.
Insufficient(bal, fee) == bal < fee

\* What get_bundlr_balance may answer: an error or a balance.
QueryResults ==
  {[ok |-> FALSE, value |-> 0]} \cup [ok : {TRUE}, value : 0..MaxBalance]

\* upload_data is not running.
UploadIdle ==
  /\ pc = "idle"
  /\ indices = <<>>
  /\ data_type = "Image"
  /\ parallel_limit = 1
  /\ interrupted = FALSE
  /\ transactions = <<>>
  /\ handles = {}
  /\ task = <<>>
  /\ cache = InitialCache
  /\ disk = InitialCache
  /\ errors = <<>>
  /\ result = "none"
  /\ message = "none"
  /\ dispatched = <<>>
  /\ harvested = {}
  /\ progress = 0
  /\ sync_calls = 0
  /\ synced = FALSE
  /\ cancel_seen = FALSE
  /\ flag_at_call = FALSE

InitPrepare ==
  /\ UploadIdle
  /\ p_pc = "fee"
  /\ price = 0
  /\ lamports_fee = 0
  /\ balance = 0
  /\ first_balance = 0
  /\ retry = 0
  /\ transfers = <<>>
  /\ polls = 0
  /\ last_query = "none"
  /\ p_result = "none"
  /\ EstimateIdle

\* bundlr.rs 281-283: the price query (may fail) and the multiplier.
PrepareFee ==
  /\ p_pc = "fee"
  /\ \E ok \in BOOLEAN, answer \in 0..MaxPrice :
       IF ok
       THEN /\ price' = answer
            /\ lamports_fee' = RequiredAmount(answer)
            /\ p_pc' = "balance"
            /\ p_result' = p_result
       ELSE /\ p_pc' = "done"
            /\ p_result' = "ErrFee"
            /\ UNCHANGED <<price, lamports_fee>>
  /\ UNCHANGED <<balance, first_balance, retry, transfers, polls, last_query>>
  /\ UNCHANGED evars
  /\ UNCHANGED uvars

\* bundlr.rs 285-287: the fresh balance query (may fail).
PrepareBalance ==
  /\ p_pc = "balance"
  /\ \E res \in QueryResults :
       IF res.ok
       THEN /\ balance' = res.value
            /\ first_balance' = res.value
            /\ p_pc' = "gate"
            /\ p_result' = p_result
       ELSE /\ p_pc' = "done"
            /\ p_result' = "ErrBalance"
            /\ UNCHANGED <<balance, first_balance>>
  /\ UNCHANGED <<price, lamports_fee, retry, transfers, polls, last_query>>
  /\ UNCHANGED evars
  /\ UNCHANGED uvars

\* bundlr.rs 296-308 and 342: setup_client (may fail), then the funding gate;
\* fund_bundlr_address may fail.
Gate ==
  /\ p_pc = "gate"
  /\ \E setup_ok \in BOOLEAN :
       IF ~setup_ok
       THEN /\ p_pc' = "done"
            /\ p_result' = "ErrSetup"
            /\ transfers' = transfers
       ELSE IF NeedsFunding(lamports_fee, balance)
       THEN /\ transfers' = Append(transfers,
                                   TransferAmount(lamports_fee, balance))
            /\ \E ok \in BOOLEAN :
                 IF ok
                 THEN /\ p_pc' = IF LoopRuns(retry) THEN "poll" ELSE "verify"
                      /\ p_result' = p_result
                 ELSE /\ p_pc' = "done"
                      /\ p_result' = "ErrFund"
       ELSE /\ p_pc' = "done"
            /\ p_result' = "Ok"
            /\ transfers' = transfers
  /\ UNCHANGED <<price, lamports_fee, balance, first_balance, retry, polls,
                 last_query>>
  /\ UNCHANGED evars
  /\ UNCHANGED uvars

\* bundlr.rs 317-331: one round of the polling loop.
Poll ==
  /\ p_pc = "poll"
  /\ \E res \in QueryResults :
       LET observed == ObservedBalance(balance, res) IN
       /\ balance' = observed
       /\ polls' = polls + 1
       /\ last_query' = IF res.ok THEN "ok" ELSE "err"
       /\ IF Sufficient(observed, lamports_fee)
          THEN /\ p_pc' = "verify"
               /\ retry' = retry
          ELSE /\ retry' = retry + 1
               /\ p_pc' = IF LoopRuns(retry + 1) THEN "poll" ELSE "verify"
  /\ UNCHANGED <<price, lamports_fee, first_balance, transfers, p_result>>
  /\ UNCHANGED evars
  /\ UNCHANGED uvars

\* bundlr.rs 333-342: the verdict after the loop.
Verify ==
  /\ p_pc = "verify"
  /\ p_pc' = "done"
  /\ p_result' = IF Insufficient(balance, lamports_fee)
                 THEN "NoBundlrBalance" ELSE "Ok"
  /\ UNCHANGED <<price, lamports_fee, balance, first_balance, retry, transfers,
                 polls, last_query>>
  /\ UNCHANGED evars
  /\ UNCHANGED uvars

NextPrepare ==
  \/ PrepareFee
  \/ PrepareBalance
  \/ Gate
  \/ Poll
  \/ Verify

SpecPrepare == InitPrepare /\ [][NextPrepare]_vars

\* ------------------------------------------------ prepare: the size estimate

\* Longest index list passed to prepare for one data kind.
MaxBatch == 2

\* bundlr.rs 30: size of the Bundlr transaction header.
HEADER_SIZE == 2000

\* bundlr.rs 33: minimum file size for the cost calculation.
MINIMUM_SIZE == 10000

\* bundlr.rs 36: size of the mock URI for the cost calculation.
MOCK_URI_SIZE == 100

Max(a, b) == IF a > b THEN a ELSE b

\* The indices passed to prepare: asset 0 has an animation, asset 1 has none.
EstimateIndices == {0, 1}

\* The caches prepare may run against: links populated or not.
EstimateCaches ==
  {InitialCache,
   [s \in DOMAIN InitialCache |->
      [image_link |-> EmptyLink, metadata_link |-> EmptyLink,
       animation_link |-> None]]}

\* Mutant of Charge: the file size without the floor of MINIMUM_SIZE.
Charge_NoFloor(size) == HEADER_SIZE + size

\* bundlr.rs 246, 255, 274: what one file adds to total_size.
Charge(size) == HEADER_SIZE + Max(MINIMUM_SIZE, size)

\* get_updated_metadata(..).into_bytes().len(): the metadata document with its
\* image URI, and its animation URI when one is given, replaced; a URI is
\* given by its length.
UpdatedMetadataLen(body, image_uri, animation_uri) ==
  body + image_uri + (IF animation_uri = None THEN 0 ELSE animation_uri[2])

\* bundlr.rs 262-266: the mock animation URI, for an asset with an animation.
MockAnimationUri(item) ==
  IF item.animation # NoPath THEN Some(MOCK_URI_SIZE) ELSE None

\* bundlr.rs 246, 255, 268-270: the size charged for the file of one index.
SizeOf(kind, index, lens) ==
  IF kind = "Metadata"
  THEN UpdatedMetadataLen(lens[kind][index], MOCK_URI_SIZE,
                          MockAnimationUri(Assets[index]))
  ELSE lens[kind][index]

\* bundlr.rs 243-247, 252-256, 259-275: one of the three loops; an index
\* without an asset or an animation index without an animation panics
\* (unwrap), a failing fs::metadata or get_updated_metadata returns the error.
RECURSIVE SizeLoop(_, _, _, _, _)
SizeLoop(idx, kind, lens, failing, acc) ==
  IF idx = <<>> \/ acc.err # "none" THEN acc
  ELSE LET index == Head(idx) IN
       IF index \notin DOMAIN Assets THEN [acc EXCEPT !.err = "Panic"]
       ELSE IF kind = "Animation" /\ Assets[index].animation = NoPath
       THEN [acc EXCEPT !.err = "Panic"]
       ELSE IF kind \in failing
       THEN [acc EXCEPT !.err = IF kind = "Metadata" THEN "ErrMetadata"
                                ELSE "ErrStat"]
       ELSE SizeLoop(Tail(idx), kind, lens, failing,
                     [acc EXCEPT !.total = @ + Charge(SizeOf(kind, index, lens))])

\* bundlr.rs 241-275: total_size, over the images, then the animations, then
\* the metadata files.
TotalSize(images, animations, metadata, lens, failing) ==
  SizeLoop(metadata, "Metadata", lens, failing,
    SizeLoop(animations, "Animation", lens, failing,
      SizeLoop(images, "Image", lens, failing,
               [err |-> "none", total |-> 0])))

\* prepare is called: the state at line 240.
InitEstimate ==
  /\ pc = "idle"
  /\ indices = <<>>
  /\ data_type = "Image"
  /\ parallel_limit = 1
  /\ interrupted = FALSE
  /\ transactions = <<>>
  /\ handles = {}
  /\ task = <<>>
  /\ cache \in EstimateCaches
  /\ disk = cache
  /\ errors = <<>>
  /\ result = "none"
  /\ message = "none"
  /\ dispatched = <<>>
  /\ harvested = {}
  /\ progress = 0
  /\ sync_calls = 0
  /\ synced = FALSE
  /\ cancel_seen = FALSE
  /\ flag_at_call = FALSE
  /\ p_pc = "size"
  /\ price = 0
  /\ lamports_fee = 0
  /\ balance = 0
  /\ first_balance = 0
  /\ retry = 0
  /\ transfers = <<>>
  /\ polls = 0
  /\ last_query = "none"
  /\ p_result = "none"
  /\ image_indices \in SeqsUpTo(EstimateIndices, MaxBatch)
  /\ metadata_indices \in SeqsUpTo(EstimateIndices, MaxBatch)
  /\ animation_indices \in SeqsUpTo(EstimateIndices, MaxBatch)
  /\ file_len \in FileLens
  /\ total_size = 0

\* bundlr.rs 240-277: the size estimate; the file reads of any data kind may
\* fail.
Estimate ==
  /\ p_pc = "size"
  /\ \E failing \in SUBSET DataTypes :
       LET est == TotalSize(image_indices, animation_indices,
                            metadata_indices, file_len, failing) IN
       IF est.err = "none"
       THEN /\ total_size' = est.total
            /\ p_pc' = "fee"
            /\ p_result' = p_result
       ELSE /\ total_size' = total_size
            /\ p_pc' = "done"
            /\ p_result' = est.err
  /\ UNCHANGED <<price, lamports_fee, balance, first_balance, retry, transfers, polls,
                 last_query, image_indices, metadata_indices,
                 animation_indices, file_len>>
  /\ UNCHANGED uvars

NextEstimate == Estimate

SpecEstimate == InitEstimate /\ [][NextEstimate]_vars

\* --------------------------------------------------------------- properties

\* The asset identifier of task n: the base name of the file of indices[n].
AssetIdOf(n) == file_stem(FilePath(Assets[indices[n]], data_type))

\* The field of a cache item that belongs to a data kind.
KindField(item, dt) ==
  CASE dt = "Image" -> item.image_link
    [] dt = "Metadata" -> item.metadata_link
    [] dt = "Animation" -> item.animation_link

\* The value upload_data stores in that field for the upload with this id.
KindLink(dt, id) == IF dt = "Animation" THEN Some(Link(id)) ELSE Link(id)

Failed == {"err", "panic"}

\* The links of the successful uploads of asset s.
LinksOf(s) ==
  {KindLink(data_type, n) : n \in {m \in DOMAIN task :
                                     AssetIdOf(m) = s /\ task[m] = "ok"}}

\* The tasks of the run are for pairwise distinct asset identifiers.
DistinctAssets ==
  \A n, m \in DOMAIN task : AssetIdOf(n) = AssetIdOf(m) => n = m

\* C1: on every exit of upload_data reached after a task was dispatched,
\* cache.sync_file has been invoked after the last harvest.  Stated for the
\* runs with PARALLEL_LIMIT >= 2 and distinct asset identifiers, which depend
\* neither on an empty refill nor on two tasks for one asset.
C1_SyncOnEveryExit ==
  (pc = "done" /\ dispatched # <<>> /\ parallel_limit >= 2 /\ DistinctAssets)
    => synced

\* C2: when upload_data returns Ok with an empty error list, every selected
\* index had its task dispatched and harvested with a successful result and
\* its link is in the cache.  Stated for the runs with PARALLEL_LIMIT >= 2 and
\* distinct asset identifiers.
C2_SuccessMeansComplete ==
  (pc = "done" /\ result = "Ok" /\ errors = <<>> /\ parallel_limit >= 2
     /\ DistinctAssets) =>
    /\ Len(task) = Len(indices)
    /\ \A n \in DOMAIN task :
         /\ n \in Range(dispatched)
         /\ n \in harvested
         /\ task[n] = "ok"
         /\ KindField(cache[AssetIdOf(n)], data_type) \in LinksOf(AssetIdOf(n))

\* C3: when the loop stopped on the cancellation flag and upload_data has
\* returned (other than by a failing sync), every dispatched task whose upload
\* completed successfully was harvested and its asset's link is in the durable
\* snapshot.  Stated for the runs with PARALLEL_LIMIT >= 2 and distinct asset
\* identifiers.
C3_NoLinkLostOnCancel ==
  (pc = "done" /\ cancel_seen /\ result # "ErrSync" /\ parallel_limit >= 2
     /\ DistinctAssets) =>
    \A n \in DOMAIN task :
      task[n] = "ok" =>
        /\ n \in harvested
        /\ KindField(disk[AssetIdOf(n)], data_type) \in LinksOf(AssetIdOf(n))

\* C4: in a run without cancellation that returns its error list, every task
\* was dispatched and harvested, the list holds exactly one entry per failed
\* task, and every successful task's asset has its link populated.  Stated for
\* the runs with distinct asset identifiers.
C4_FailuresDoNotStopOthers ==
  (pc = "done" /\ result = "Ok" /\ ~cancel_seen /\ DistinctAssets) =>
    /\ \A n \in DOMAIN task : n \in Range(dispatched) /\ n \in harvested
    /\ Len(errors) = Cardinality({n \in DOMAIN task : task[n] \in Failed})
    /\ \A n \in DOMAIN task :
         task[n] \in Failed =>
           Cardinality({i \in DOMAIN errors : errors[i].seq = n}) = 1
    /\ \A n \in DOMAIN task :
         task[n] = "ok" =>
           KindField(cache[AssetIdOf(n)], data_type) \in LinksOf(AssetIdOf(n))

\* C4 (amended): every harvested task that failed, by a task-level error or by
\* a panic, has exactly one entry in the error list and no other entry exists;
\* and in a run without cancellation that returns its error list, with
\* PARALLEL_LIMIT >= 2, every task was dispatched and harvested and every
\* successful task's asset has its link populated.
C4_FailuresRecordedOnce ==
  /\ Len(errors) = Cardinality({n \in harvested : task[n] \in Failed})
  /\ \A n \in harvested :
       task[n] \in Failed =>
         Cardinality({i \in DOMAIN errors : errors[i].seq = n}) = 1
  /\ (pc = "done" /\ result = "Ok" /\ ~cancel_seen /\ parallel_limit >= 2) =>
       /\ \A n \in DOMAIN task : n \in Range(dispatched) /\ n \in harvested
       /\ \A n \in DOMAIN task :
            task[n] = "ok" =>
              KindField(cache[AssetIdOf(n)], data_type)
                \in LinksOf(AssetIdOf(n))

\* C4 witness: a full run in which one task failed, one panicked and one
\* succeeded.
C4_Witness ==
  /\ pc = "done" /\ result = "Ok" /\ ~cancel_seen /\ parallel_limit >= 2
  /\ \E n, m, k \in harvested :
       task[n] = "err" /\ task[m] = "panic" /\ task[k] = "ok"

\* C5: after a non-cancelled run that returned Ok, the durable snapshot holds,
\* in the field of the data kind, the link of a successful upload for every
\* asset that had one and the prior value for every other asset; every other
\* field and the set of cache items are as before the run.
C5_FinalSnapshot ==
  (pc = "done" /\ result = "Ok" /\ ~cancel_seen) =>
    /\ DOMAIN disk = DOMAIN InitialCache
    /\ \A s \in DOMAIN InitialCache :
         /\ IF LinksOf(s) # {}
            THEN KindField(disk[s], data_type) \in LinksOf(s)
            ELSE KindField(disk[s], data_type)
                   = KindField(InitialCache[s], data_type)
         /\ \A k \in DataTypes \ {data_type} :
              KindField(disk[s], k) = KindField(InitialCache[s], k)

\* C5 witness: a full run of two or more tasks with a success and a failure.
C5_Witness ==
  /\ pc = "done" /\ result = "Ok" /\ ~cancel_seen
  /\ harvested = DOMAIN task
  /\ \E n, m \in DOMAIN task : task[n] = "ok" /\ task[m] \in Failed

\* C6: the number of task handles in flight never exceeds PARALLEL_LIMIT.
C6_InFlightBounded == Cardinality(handles) <= parallel_limit

\* C6 witness: a task is in flight after a refill.
C6_Witness ==
  /\ pc = "loop" /\ sync_calls >= 1 /\ parallel_limit >= 2
  /\ Len(dispatched) > parallel_limit
  /\ handles # {}

\* C7: no two tasks for the same asset identifier and data kind are in flight
\* at the same time.
C7_OneTaskPerAsset ==
  \A h1, h2 \in handles :
    (h1.asset_id = h2.asset_id /\ h1.data_type = h2.data_type) => h1 = h2

\* The funding gate of prepare has been passed.
GatePassed ==
  \/ p_pc \in {"poll", "verify"}
  \/ p_pc = "done" /\ p_result \in {"Ok", "NoBundlrBalance", "ErrFund"}

\* C8: prepare issues no transfer and no poll when the fresh balance covers
\* the required amount, and otherwise exactly one transfer, of the positive
\* amount required - balance, however the polling proceeds.
C8_AtMostOneTransfer ==
  /\ Len(transfers) <= 1
  /\ ~GatePassed => transfers = <<>> /\ polls = 0
  /\ GatePassed =>
       IF first_balance >= lamports_fee
       THEN transfers = <<>> /\ polls = 0
       ELSE /\ Len(transfers) = 1
            /\ transfers[1] = lamports_fee - first_balance
            /\ transfers[1] > 0

\* C8 witness: one transfer was made and the poll ran several rounds.
C8_Witness ==
  p_pc = "done" /\ p_result = "Ok" /\ Len(transfers) = 1 /\ polls >= 3

\* C9: the poll makes at most MAX_RETRY balance queries, goes on only while
\* the observed balance is below the required amount, ends in Ok exactly when
\* an observed balance reaches it, and in NoBundlrBalance exactly when all
\* MAX_RETRY queries passed with the balance still below.
C9_PollTerminates ==
  /\ polls <= MAX_RETRY
  /\ p_pc = "poll" =>
       polls = retry /\ retry < MAX_RETRY /\ balance < lamports_fee
  /\ (p_pc = "verify" /\ balance < lamports_fee) => polls = MAX_RETRY
  /\ (p_pc = "done" /\ polls > 0) =>
       /\ p_result \in {"Ok", "NoBundlrBalance"}
       /\ p_result = "Ok" <=> balance >= lamports_fee
       /\ p_result = "NoBundlrBalance" <=>
            (polls = MAX_RETRY /\ balance < lamports_fee)
  /\ p_result = "NoBundlrBalance" => polls = MAX_RETRY

\* C9 witness: the retry budget was exhausted.
C9_Witness == p_pc = "done" /\ p_result = "NoBundlrBalance"

PreflightErrors == {"ErrNoAsset", "ErrExtension", "ErrCacheItem"}

\* No selected asset makes the animation unwrap of line 367 panic.
NoUnwrapPanic ==
  data_type = "Animation" =>
    \A i \in DOMAIN indices :
      indices[i] \in DOMAIN Assets => Assets[indices[i]].animation # NoPath

\* The selected files, when every selected index has an asset.
SelectedFiles ==
  {FilePath(Assets[indices[i]], data_type) : i \in DOMAIN indices}

\* The input has one of the three pre-flight faults: an index with no asset,
\* files of more than one extension, or a file whose asset identifier has no
\* cache item.
PreflightFault ==
  /\ NoUnwrapPanic
  /\ \/ \E i \in DOMAIN indices : indices[i] \notin DOMAIN Assets
     \/ Cardinality({extension(p) : p \in SelectedFiles}) > 1
     \/ \E p \in SelectedFiles : file_stem(p) \notin DOMAIN InitialCache

\* C11: an input with a pre-flight fault makes upload_data return one of the
\* pre-flight errors, and whenever it returns one of them no task was
\* dispatched, the in-memory cache and the cache file are as before the call
\* and sync_file was not invoked.
C11_PreflightFailure ==
  /\ (pc # "start" /\ PreflightFault) =>
       pc = "done" /\ result \in PreflightErrors
  /\ (pc = "done" /\ result \in PreflightErrors) =>
       /\ dispatched = <<>>
       /\ handles = {}
       /\ task = <<>>
       /\ cache = InitialCache
       /\ disk = InitialCache
       /\ sync_calls = 0
       /\ errors = <<>>

\* C11 witness: the third selected file has no cache item, after two files
\* that passed every check.
C11_Witness ==
  /\ pc = "done" /\ result = "ErrCacheItem" /\ Len(indices) = 3
  /\ indices[3] = 3 /\ indices[1] # 3 /\ indices[2] # 3

\* ------------------------------------------------ properties: cancellation

\* C12: when the loop stopped on the cancellation flag with tasks still
\* pending, upload_data reports "Upload aborted" and returns the abort error,
\* whether or not task errors were recorded.  Stated for the runs with
\* PARALLEL_LIMIT >= 2 and distinct asset identifiers.
C12_CancelReportsAborted ==
  (pc = "done" /\ cancel_seen /\ transactions # <<>> /\ parallel_limit >= 2
     /\ DistinctAssets) =>
    message = "Upload aborted" /\ result = "ErrAborted"

\* ------------------------------------------------------ properties: refill

\* The in-flight count is below half of PARALLEL_LIMIT and tasks are pending.
BelowHalf == transactions # <<>> /\ 2 * Cardinality(handles) < parallel_limit

\* The task numbers a refill takes: the front of the pending list.
FrontOfPending ==
  [i \in 1..Min(Len(transactions), parallel_limit \div 2) |->
     transactions[i].seq]

\* C13: after a harvest the loop goes on to a refill exactly when tasks are
\* pending and the in-flight count is below half of PARALLEL_LIMIT; it then
\* calls sync_file once, and only after that call succeeded does the refill
\* dispatch min(|pending|, PARALLEL_LIMIT / 2) tasks; inside the loop sync_file
\* is called nowhere else, and tasks are dispatched nowhere else.
C13_RefillRule ==
  [][  /\ (pc = "refill" /\ pc' # "refill") =>
           IF BelowHalf
           THEN /\ sync_calls' = sync_calls + 1
                /\ ~synced /\ synced'
                /\ dispatched' = dispatched
                /\ \/ pc' = "spawn" /\ disk' = cache
                   \/ pc' = "done" /\ result' = "ErrSync" /\ disk' = disk
           ELSE /\ pc' = "loop"
                /\ UNCHANGED <<sync_calls, disk, dispatched, handles,
                               transactions>>
       /\ (pc = "spawn" /\ pc' # "spawn") =>
           /\ pc' = "loop"
           /\ synced /\ disk = cache
           /\ sync_calls' = sync_calls
           /\ dispatched' = dispatched \o FrontOfPending
           /\ Len(transactions') = Len(transactions) - Len(FrontOfPending)
           /\ Cardinality(handles') = Cardinality(handles) + Len(FrontOfPending)
       /\ sync_calls' # sync_calls => pc \in {"refill", "finish"}
       /\ dispatched' # dispatched => pc \in {"start", "spawn"}]_vars

\* C13 witness: a refill has dispatched a task after its checkpoint, in the
\* iteration of the latest harvest.
C13_Witness ==
  /\ pc = "loop" /\ synced /\ harvested # {} /\ parallel_limit = 2
  /\ Len(dispatched) = parallel_limit + 1
  /\ task[dispatched[Len(dispatched)]] = "running"

\* ------------------------------------------------- properties: termination

\* upload_data runs on: the executor resumes it at every await, select_all
\* returns once a task in flight has completed, and a send_bundlr_tx that was
\* spawned ends (with a result, an error or a panic).
Fairness ==
  /\ WF_vars(Start)
  /\ WF_vars(LoopHead)
  /\ WF_vars(Harvest)
  /\ WF_vars(Refill)
  /\ WF_vars(Spawn)
  /\ WF_vars(Finish)
  /\ WF_vars(TaskComplete)

\* The loop of upload_data looks at how many tasks there are, never at which
\* asset a task is for: the specifications with fairness take, for every data
\* kind and limit, the index lists 0, 1, 2, 0, ... of every length.
InitLive ==
  /\ Init
  /\ indices \in {[i \in 1..k |-> (i - 1) % 3] : k \in 0..MaxLen}

SpecLive == InitLive /\ [][Next]_vars /\ Fairness

\* upload_data ran past its loop: pre-flight passed, the loop never read the
\* flag as set and no sync_file failed.
RanToEnd == pc = "done" /\ result \in {"Ok", "ErrAborted"} /\ ~cancel_seen

\* Every selected task was dispatched once and harvested, nothing is pending
\* or in flight, and the successes and the recorded errors add up to the
\* number of selected indices.
AllAccounted ==
  /\ transactions = <<>>
  /\ handles = {}
  /\ Len(task) = Len(indices)
  /\ Len(dispatched) = Len(indices)
  /\ Range(dispatched) = DOMAIN task
  /\ harvested = DOMAIN task
  /\ progress + Len(errors) = Len(indices)

\* C14: a run that the cancellation flag and sync_file did not end ends with
\* every selected task accounted for, for every PARALLEL_LIMIT >= 1.  Stated
\* for the runs with distinct asset identifiers.
C14_AllAccountedAnyLimit == (RanToEnd /\ DistinctAssets) => AllAccounted

\* C14 (amended): upload_data terminates when every dispatched task
\* completes, and a run that the cancellation flag and sync_file did not end
\* ends, for every PARALLEL_LIMIT >= 2, with every selected task accounted for.
C14_Terminates ==
  /\ <>(pc = "done")
  /\ []((RanToEnd /\ parallel_limit >= 2) => AllAccounted)

\* C14 witness: a run of three tasks and several refills ran to its end.
C14_Witness ==
  RanToEnd /\ parallel_limit >= 2 /\ Len(indices) = 3 /\ sync_calls >= 2

\* ---------------------------------------------------- properties: stalling

\* The numbers a task can have: one task per selected index.
TaskNumbers == 1..MaxLen

\* As SpecLive, but the task spawned first may be stuck: its send_bundlr_tx
\* need not ever finish; every other spawned task finishes.
SpecStuck ==
  /\ InitLive /\ [][Next]_vars
  /\ WF_vars(Start)
  /\ WF_vars(LoopHead)
  /\ WF_vars(Harvest)
  /\ WF_vars(Refill)
  /\ WF_vars(Spawn)
  /\ WF_vars(Finish)
  /\ \A n \in TaskNumbers \ {1} : WF_vars(TaskCompleteOf(n))

\* upload_data stopped harvesting: cancellation was requested or it returned.
Stopped == interrupted \/ pc = "done"

\* C15: every task other than the stuck one is eventually dispatched and
\* harvested, unless cancellation or a failing sync_file ends the run first.
\* Stated for the runs with PARALLEL_LIMIT >= 2 and distinct asset identifiers.
C15_OthersDispatchedAndHarvested ==
  <>(\/ Stopped
     \/ parallel_limit < 2
     \/ /\ task # <<>>
        /\ ~DistinctAssets \/ DOMAIN task \ {1} \subseteq harvested)

\* C15 (amended): every dispatched task other than the stuck one is
\* eventually harvested, in whatever order the tasks were spawned, unless
\* cancellation or a failing sync_file ends the run first.
C15_InFlightHarvested ==
  \A n \in TaskNumbers \ {1} :
    (n \in Range(dispatched)) ~> (n \in harvested \/ Stopped)

\* C15 witness: the task spawned second was harvested while the task spawned
\* first is still running, and a task is pending.
C15_Witness ==
  /\ pc = "select" /\ ~interrupted /\ task # <<>> /\ transactions # <<>>
  /\ task[1] = "running" /\ 2 \in harvested

\* C16: the flag is observed at the loop head only, and a flag that is set
\* ends the loop there; a harvest, a checkpoint or a refill under way when the
\* flag is set runs to its end; once the loop head has observed the flag no
\* task is dispatched or harvested, and the tasks in flight are left alone:
\* their handles stay and a running task changes only by finishing on its own.
C16_CooperativeCancel ==
  [][  /\ (pc = "loop" /\ pc' # "loop") =>
            /\ cancel_seen' = interrupted
            /\ pc' = IF interrupted \/ handles = {} THEN "finish" ELSE "select"
       /\ (pc # "loop" \/ pc' = "loop") => cancel_seen' = cancel_seen
       /\ pc \in {"select", "refill", "spawn"} => ~cancel_seen
       /\ (pc = "select" /\ pc' # pc /\ interrupted) =>
            pc' = "refill" /\ harvested' # harvested
       /\ (pc = "refill" /\ pc' # pc /\ interrupted) =>
            IF BelowHalf THEN sync_calls' = sync_calls + 1 ELSE pc' = "loop"
       /\ (pc = "spawn" /\ pc' # pc /\ interrupted) =>
            dispatched' = dispatched \o FrontOfPending
       /\ cancel_seen =>
            /\ pc \in {"finish", "done"}
            /\ UNCHANGED <<dispatched, handles, transactions, harvested>>
            /\ \A n \in DOMAIN task :
                 task'[n] # task[n] =>
                   task[n] = "running" /\ task'[n] \in Completed]_vars

\* C16 witness: the loop ended on the flag after a harvest, with a task
\* pending and a task in flight whose upload then finished on its own.
C16_Witness ==
  /\ pc = "done" /\ cancel_seen /\ harvested # {} /\ transactions # <<>>
  /\ \E h \in handles : task[h.seq] = "ok"

\* ------------------------------------------------------ properties: order

\* C17: task n is the task of the n-th selected index; the tasks are spawned
\* in that order, the initial dispatch spawning the first
\* min(n, PARALLEL_LIMIT) of them, and the pending list always holds the
\* tasks not yet spawned in that order.
C17_DispatchFIFO ==
  /\ \A i \in DOMAIN dispatched : dispatched[i] = i
  /\ \A i \in DOMAIN transactions : transactions[i].seq = Len(dispatched) + i
  /\ \A h \in handles \cup Range(transactions) :
       h.file_path = FilePath(Assets[indices[h.seq]], data_type)
  /\ task # <<>> =>
       /\ Len(task) = Len(indices)
       /\ Len(dispatched) >= Min(Len(indices), parallel_limit)

\* C17 witness: three tasks were spawned, the third by a refill, after the
\* second task had been harvested before the first.
C17_Witness ==
  /\ Len(dispatched) = 3 /\ parallel_limit = 2 /\ task[3] = "running"
  /\ Len(errors) = 2 /\ errors[1].seq = 2 /\ errors[2].seq = 1

\* ------------------------------------------------------ properties: re-run

\* The cache item held a link for the data kind before the run.
Populated(item, dt) == KindField(item, dt) \notin {EmptyLink, None}

\* C18: no task is dispatched for an asset whose cache item already held a
\* link for the requested data kind, and that link is never overwritten.
C18_LinkedItemsSkipped ==
  /\ \A n \in Range(dispatched) :
       ~Populated(InitialCache[AssetIdOf(n)], data_type)
  /\ \A s \in DOMAIN InitialCache :
       Populated(InitialCache[s], data_type) =>
         KindField(cache[s], data_type) = KindField(InitialCache[s], data_type)

\* --------------------------------------------------- properties: estimate

RECURSIVE SumSeq(_)
SumSeq(q) == IF q = <<>> THEN 0 ELSE Head(q) + SumSeq(Tail(q))

\* The number of URIs the rewritten metadata document of an asset carries.
UriCount(index) == IF Assets[index].animation = NoPath THEN 1 ELSE 2

\* The sum the estimate is to equal, for the file lengths `lens`.
ExpectedTotal(lens) ==
  SumSeq([i \in DOMAIN image_indices |->
            2000 + Max(10000, lens["Image"][image_indices[i]])])
  + SumSeq([i \in DOMAIN animation_indices |->
              2000 + Max(10000, lens["Animation"][animation_indices[i]])])
  + SumSeq([i \in DOMAIN metadata_indices |->
              2000 + Max(10000, lens["Metadata"][metadata_indices[i]]
                                  + 100 * UriCount(metadata_indices[i]))])

\* Every file of `b` is at least as long as in `a`.
NoShorter(a, b) ==
  \A k \in DataTypes : \A i \in DOMAIN Assets : a[k][i] <= b[k][i]

\* C19: the estimate is the sum over the selected images, animations and
\* metadata files of HEADER_SIZE + max(MINIMUM_SIZE, size), the size of a
\* metadata file being that of its document with the mock URIs; it is the
\* same whatever links the cache holds, and with no file shorter the
\* estimate is not smaller.
C19_TotalSize ==
  p_pc = "fee" =>
    /\ total_size = ExpectedTotal(file_len)
    /\ \A lens \in FileLens :
         NoShorter(file_len, lens) =>
           total_size <= TotalSize(image_indices, animation_indices,
                                   metadata_indices, lens, {}).total

\* C19 witness: an estimate over an image below the minimum size, an
\* animation above it and two metadata files, one of them below the minimum
\* size only before the mock URIs are added, with links already in the cache.
C19_Witness ==
  /\ p_pc = "fee" /\ cache = InitialCache
  /\ image_indices = <<0>> /\ file_len["Image"][0] < MINIMUM_SIZE
  /\ animation_indices = <<0>> /\ file_len["Animation"][0] > MINIMUM_SIZE
  /\ metadata_indices = <<0, 1>> /\ file_len["Metadata"][0] = 9950
  /\ total_size = 12000 + 12050 + 12150 + 12050

\* ------------------------------------------------- properties: multiplier

\* C20: the required amount is the price the oracle answered, for every
\* price: it is what the funding gate compares with the balance and what the
\* transfer amount is computed from.
C20_NoSafetyMargin ==
  /\ lamports_fee = price
  /\ GatePassed =>
       /\ transfers # <<>> <=> price > first_balance
       /\ transfers # <<>> => transfers[1] = price - first_balance

\* C20 witness: a transfer was made for a price of two or more lamports
\* against a balance above zero.
C20_Witness ==
  /\ GatePassed /\ price >= 2 /\ first_balance > 0
  /\ Len(transfers) = 1 /\ transfers[1] = price - first_balance

\* ------------------------------------------------ properties: empty batch

\* C21: upload_data called with an empty index list returns the invalid
\* file extension error; no task is dispatched, sync_file is not invoked and
\* the cache and the cache file are as before the call.
C21_EmptyBatchRejected ==
  (indices = <<>> /\ pc \notin {"start", "idle"}) =>
    /\ pc = "done"
    /\ result = "ErrExtension"
    /\ message = "none"
    /\ dispatched = <<>>
    /\ handles = {}
    /\ sync_calls = 0
    /\ cache = InitialCache
    /\ disk = InitialCache

\* C21 witness: upload_data has returned from a call with no index.
C21_Witness ==
  indices = <<>> /\ pc = "done" /\ result = "ErrExtension" /\ sync_calls = 0

\* ------------------------------------------- properties: cancelled at call

\* C22: when the flag is already set as upload_data is called with a batch
\* that passes pre-flight, the first min(n, PARALLEL_LIMIT) tasks are spawned
\* all the same, the loop body never runs, and no task is harvested and no
\* link written, whatever becomes of the spawned tasks.
C22_DispatchIgnoresFlag ==
  (flag_at_call /\ task # <<>>) =>
    /\ interrupted
    /\ dispatched = [i \in 1..Min(Len(indices), parallel_limit) |-> i]
    /\ Cardinality(handles) = Len(dispatched)
    /\ Len(transactions) = Len(indices) - Len(dispatched)
    /\ pc \in {"loop", "finish", "done"}
    /\ pc \in {"finish", "done"} => cancel_seen
    /\ harvested = {}
    /\ progress = 0
    /\ errors = <<>>
    /\ sync_calls = 0 \/ pc = "done"
    /\ cache = InitialCache

\* C22 witness: upload_data returned from a call made with the flag set; of
\* three tasks two were spawned, one of which uploaded its file and one
\* failed, neither being harvested.
C22_Witness ==
  /\ flag_at_call /\ pc = "done" /\ Len(indices) = 3 /\ parallel_limit = 2
  /\ \E g, h \in handles : task[g.seq] = "ok" /\ task[h.seq] = "err"

====
